---- MODULE Spec2Model ----
(***************************************************************************)
(* Hierarchical timing wheel (src/src/lib.rs): Ring and                    *)
(* HierarchicalTimingWheel, with schedule and the cascading tick.          *)
(* Rings and slots are indexed from 0 as in the source.  A payload is a    *)
(* natural number, the index of the schedule call that submitted it.       *)
(***************************************************************************)
EXTENDS Integers, Sequences, FiniteSets, TLC

VARIABLES rings, now, timers, returned, result, panicked

vars == <<rings, now, timers, returned, result, panicked>>

\* ---------------------------------------------------------------- bounds
\* schedule calls, largest delay, tick steps in all and steps of one tick call
\* tried on the small wheels
MaxTimers == 2
MaxDelay == 7
MaxTicks == 7
MaxSteps == 2

\* tests::test_exact_boundary_between_levels: the wheel, the delays it schedules
\* in order (followed by the delay of the spec's rejection example), the steps
\* of its first tick calls and the number of tick steps it makes in all
TestLevels == 3
TestSlots == 10
TestSlotCapacity == 16
TestDelays == <<9, 10, 99, 100, 999, 1000>>
TestSteps == {1, 8}
TestTicks == 999

\* ---------------------------------------------------------------- helpers
RECURSIVE pow(_, _)
pow(base, exp) ==
    IF exp = 0 THEN 1 ELSE base * pow(base, exp - 1)

RECURSIVE BitOr(_, _)
BitOr(a, b) ==
    IF a = 0 THEN b
    ELSE IF b = 0 THEN a
    ELSE (IF a % 2 = 1 \/ b % 2 = 1 THEN 1 ELSE 0) + 2 * BitOr(a \div 2, b \div 2)

Min(s) == CHOOSE x \in s : \A y \in s : x <= y

\* ---------------------------------------------------------------- Ring
ring_new(level, slot_capacity, slots_per_level) ==
    [level |-> level,
     cursor |-> 0,
     slots |-> [i \in 0..(slots_per_level - 1) |-> <<>>]]

slots_len(ring) == Cardinality(DOMAIN ring.slots)

span(ring) == pow(slots_len(ring), ring.level)

capacity(ring) == pow(slots_len(ring), ring.level + 1)

\* ring_tick returning the entries of the slot without removing them
ring_tick_keep(ring) ==
    LET cursor == (ring.cursor + 1) % slots_len(ring)
    IN  [ring |-> [ring EXCEPT !.cursor = cursor],
         timers |-> ring.slots[cursor]]

\* ring_tick draining the slot under the cursor before it advances
ring_tick_drain_first(ring) ==
    LET cursor == (ring.cursor + 1) % slots_len(ring)
    IN  [ring |-> [ring EXCEPT !.cursor = cursor, !.slots[ring.cursor] = <<>>],
         timers |-> ring.slots[ring.cursor]]

ring_tick(ring) ==
    LET cursor == (ring.cursor + 1) % slots_len(ring)
    IN  [ring |-> [ring EXCEPT !.cursor = cursor, !.slots[cursor] = <<>>],
         timers |-> ring.slots[cursor]]

\* place rounding the slot offset up instead of down
place_round_up(ring, remaining, timer) ==
    LET slot_offset == (remaining + span(ring) - 1) \div span(ring)
        slot == (ring.cursor + slot_offset) % slots_len(ring)
        adjusted_remaining == remaining % span(ring)
    IN  [ring |-> [ring EXCEPT !.slots[slot] = Append(@, <<adjusted_remaining, timer>>)],
         slot |-> slot]

\* place putting the entry at the front of the slot's queue
place_push_front(ring, remaining, timer) ==
    LET slot_offset == remaining \div span(ring)
        slot == (ring.cursor + slot_offset) % slots_len(ring)
        adjusted_remaining == remaining % span(ring)
    IN  [ring |-> [ring EXCEPT !.slots[slot] = <<<<adjusted_remaining, timer>>>> \o @],
         slot |-> slot]

\* place storing the whole remaining delay as the residual
place_keep_remaining(ring, remaining, timer) ==
    LET slot_offset == remaining \div span(ring)
        slot == (ring.cursor + slot_offset) % slots_len(ring)
    IN  [ring |-> [ring EXCEPT !.slots[slot] = Append(@, <<remaining, timer>>)],
         slot |-> slot]

\* place reducing the residual modulo the capacity instead of the span
place_mod_capacity(ring, remaining, timer) ==
    LET slot_offset == remaining \div span(ring)
        slot == (ring.cursor + slot_offset) % slots_len(ring)
        adjusted_remaining == remaining % capacity(ring)
    IN  [ring |-> [ring EXCEPT !.slots[slot] = Append(@, <<adjusted_remaining, timer>>)],
         slot |-> slot]

\* place counting the slot from slot 0 instead of from the cursor
place_no_cursor(ring, remaining, timer) ==
    LET slot_offset == remaining \div span(ring)
        slot == slot_offset % slots_len(ring)
        adjusted_remaining == remaining % span(ring)
    IN  [ring |-> [ring EXCEPT !.slots[slot] = Append(@, <<adjusted_remaining, timer>>)],
         slot |-> slot]

place(ring, remaining, timer) ==
    LET slot_offset == remaining \div span(ring)
        slot == (ring.cursor + slot_offset) % slots_len(ring)
        adjusted_remaining == remaining % span(ring)
    IN  [ring |-> [ring EXCEPT !.slots[slot] = Append(@, <<adjusted_remaining, timer>>)],
         slot |-> slot]

\* ---------------------------------------------------------------- HierarchicalTimingWheel
new(levels, slot_capacity, slots_per_level) ==
    [level \in 0..(levels - 1) |-> ring_new(level, slot_capacity, slots_per_level)]

rings_len(rs) == Cardinality(DOMAIN rs)

\* schedule without the normalization of a zero delay
normalize_none(delay_ticks) == delay_ticks

normalize(delay_ticks) ==
    BitOr(IF delay_ticks = 0 THEN 1 ELSE 0, delay_ticks)

\* the level test rejecting a delay equal to the span
fits_above_span(ring, delay_ticks) ==
    delay_ticks < capacity(ring) /\ delay_ticks > span(ring)

\* the level test accepting a delay equal to the capacity
fits_inclusive(ring, delay_ticks) ==
    delay_ticks <= capacity(ring) /\ delay_ticks >= span(ring)

fits(ring, delay_ticks) ==
    delay_ticks < capacity(ring) /\ delay_ticks >= span(ring)

\* schedule placing the timer in the topmost ring before it reports DelayTooLarge
schedule_place_then_fail(rs, delay, timer) ==
    LET delay_ticks == normalize(delay)
        found == {level \in DOMAIN rs : fits(rs[level], delay_ticks)}
    IN  IF found = {}
        THEN [rings |-> [rs EXCEPT ![rings_len(rs) - 1] =
                            place(rs[rings_len(rs) - 1], delay_ticks, timer).ring],
              ok |-> FALSE, level |-> 0, slot |-> 0]
        ELSE LET level == Min(found)
                 p == place(rs[level], delay_ticks, timer)
             IN  [rings |-> [rs EXCEPT ![level] = p.ring],
                  ok |-> TRUE, level |-> level, slot |-> p.slot]

schedule(rs, delay, timer) ==
    LET delay_ticks == normalize(delay)
        found == {level \in DOMAIN rs : fits(rs[level], delay_ticks)}
    IN  IF found = {}
        THEN [rings |-> rs, ok |-> FALSE, level |-> 0, slot |-> 0]
        ELSE LET level == Min(found)
                 p == place(rs[level], delay_ticks, timer)
             IN  [rings |-> [rs EXCEPT ![level] = p.ring],
                  ok |-> TRUE, level |-> level, slot |-> p.slot]

payloads(entries) == [k \in 1..Len(entries) |-> entries[k][2]]

\* the loop over graduated scheduling the drained entries from the back
RECURSIVE regraduate_reversed(_, _, _)
regraduate_reversed(w, graduated, k) ==
    IF k > Len(graduated) \/ w.panicked THEN w
    ELSE LET remaining_delay == graduated[Len(graduated) + 1 - k][1]
             timer == graduated[Len(graduated) + 1 - k][2]
             s == schedule(w.rings, remaining_delay, timer)
         IN  IF remaining_delay = 0
             THEN regraduate_reversed([w EXCEPT !.due = Append(@, timer)], graduated, k + 1)
             ELSE regraduate_reversed([w EXCEPT !.rings = s.rings,
                                                !.panicked = ~s.ok,
                                                !.moved = @ + 1], graduated, k + 1)

\* the loop over graduated putting an entry of residual 0 at the front of due
RECURSIVE regraduate_prepend(_, _, _)
regraduate_prepend(w, graduated, k) ==
    IF k > Len(graduated) \/ w.panicked THEN w
    ELSE LET remaining_delay == graduated[k][1]
             timer == graduated[k][2]
             s == schedule(w.rings, remaining_delay, timer)
         IN  IF remaining_delay = 0
             THEN regraduate_prepend([w EXCEPT !.due = <<timer>> \o @], graduated, k + 1)
             ELSE regraduate_prepend([w EXCEPT !.rings = s.rings,
                                               !.panicked = ~s.ok,
                                               !.moved = @ + 1], graduated, k + 1)

\* the inner loop advancing ring i whenever the cursor of ring i-1 is 0
RECURSIVE cascade_ignore_inner(_, _, _, _, _)
cascade_ignore_inner(rs, i, inner_ticked, due, graduated) ==
    LET should_tick == i = 0 \/ rs[i - 1].cursor = 0
        t == ring_tick(rs[i])
        rs1 == IF should_tick THEN [rs EXCEPT ![i] = t.ring] ELSE rs
        due1 == IF should_tick /\ i = 0 THEN due \o payloads(t.timers) ELSE due
        graduated1 == IF should_tick /\ i # 0 THEN graduated \o t.timers ELSE graduated
    IN  IF i + 1 = rings_len(rs)
        THEN [rings |-> rs1, due |-> due1, graduated |-> graduated1]
        ELSE cascade_ignore_inner(rs1, i + 1, should_tick, due1, graduated1)

\* the inner loop advancing ring i whenever ring i-1 was advanced
RECURSIVE cascade_ignore_wrap(_, _, _, _, _)
cascade_ignore_wrap(rs, i, inner_ticked, due, graduated) ==
    LET should_tick == i = 0 \/ inner_ticked
        t == ring_tick(rs[i])
        rs1 == IF should_tick THEN [rs EXCEPT ![i] = t.ring] ELSE rs
        due1 == IF should_tick /\ i = 0 THEN due \o payloads(t.timers) ELSE due
        graduated1 == IF should_tick /\ i # 0 THEN graduated \o t.timers ELSE graduated
    IN  IF i + 1 = rings_len(rs)
        THEN [rings |-> rs1, due |-> due1, graduated |-> graduated1]
        ELSE cascade_ignore_wrap(rs1, i + 1, should_tick, due1, graduated1)

\* the inner loop of tick: ring 0 always, ring i when ring i-1 ticked and wrapped
RECURSIVE cascade(_, _, _, _, _)
cascade(rs, i, inner_ticked, due, graduated) ==
    LET should_tick == i = 0 \/ (inner_ticked /\ rs[i - 1].cursor = 0)
        t == ring_tick(rs[i])
        rs1 == IF should_tick THEN [rs EXCEPT ![i] = t.ring] ELSE rs
        due1 == IF should_tick /\ i = 0 THEN due \o payloads(t.timers) ELSE due
        graduated1 == IF should_tick /\ i # 0 THEN graduated \o t.timers ELSE graduated
    IN  IF i + 1 = rings_len(rs)
        THEN [rings |-> rs1, due |-> due1, graduated |-> graduated1]
        ELSE cascade(rs1, i + 1, should_tick, due1, graduated1)

\* the loop over graduated: due when the residual is 0, re-scheduled otherwise;
\* moved counts the re-schedules, panicked is the unwrap of a rejected one
RECURSIVE regraduate(_, _, _)
regraduate(w, graduated, k) ==
    IF k > Len(graduated) \/ w.panicked THEN w
    ELSE LET remaining_delay == graduated[k][1]
             timer == graduated[k][2]
             s == schedule(w.rings, remaining_delay, timer)
         IN  IF remaining_delay = 0
             THEN regraduate([w EXCEPT !.due = Append(@, timer)], graduated, k + 1)
             ELSE regraduate([w EXCEPT !.rings = s.rings,
                                       !.panicked = ~s.ok,
                                       !.moved = @ + 1], graduated, k + 1)

\* a pass that starts from an empty due instead of the due of the passes before
tick_step_fresh_due(w) ==
    LET c == cascade(w.rings, 0, FALSE, <<>>, <<>>)
        g == regraduate([w EXCEPT !.rings = c.rings, !.due = c.due], c.graduated, 1)
    IN  [g EXCEPT !.marks = Append(@, Len(g.due))]

\* one pass of the outer loop of tick; marks records the length of due after it
tick_step(w) ==
    LET c == cascade(w.rings, 0, FALSE, w.due, <<>>)
        g == regraduate([w EXCEPT !.rings = c.rings, !.due = c.due], c.graduated, 1)
    IN  [g EXCEPT !.marks = Append(@, Len(g.due))]

RECURSIVE tick_loop(_, _)
tick_loop(w, steps) ==
    IF steps = 0 \/ w.panicked THEN w ELSE tick_loop(tick_step(w), steps - 1)

tick(rs, steps) ==
    tick_loop([rings |-> rs, due |-> <<>>, panicked |-> FALSE, moved |-> 0, marks |-> <<>>],
              steps)

\* ---------------------------------------------------------------- the calls
\* <<levels, slots_per_level>> of the small wheels, driven by any calls
Configs ==
    {<<1, 2>>, <<2, 2>>, <<3, 2>>, <<2, 3>>}

IsTest(rs) == slots_len(rs[0]) = TestSlots

top(rs) == rs[rings_len(rs) - 1]

\* the delays tried in a state: those whose deadline the ticks of the model
\* reach, and those the wheel rejects
DelayInputs(rs) ==
    {d \in 0..MaxDelay :
        \/ d < capacity(top(rs)) /\ now + d <= MaxTicks
        \/ d >= capacity(top(rs)) /\ d <= capacity(top(rs)) + 1}

NoCall ==
    [op |-> "new", delay |-> 0, timer |-> 0, ok |-> TRUE, level |-> 0, slot |-> 0,
     steps |-> 0, due |-> <<>>, moved |-> 0, marks |-> <<>>]

Init ==
    /\ \E c \in Configs \cup {<<TestLevels, TestSlots>>} :
         rings = new(c[1], TestSlotCapacity, c[2])
    /\ now = 0
    /\ timers = <<>>
    /\ returned = <<>>
    /\ result = NoCall
    /\ panicked = FALSE

\* a call schedule(delay, timer) with the next payload
ScheduleCall(delay) ==
    \E timer \in {Len(timers) + 1} : \E s \in {schedule(rings, delay, timer)} :
        /\ rings' = s.rings
        /\ timers' = Append(timers, [delay |-> delay, at |-> now, ok |-> s.ok])
        /\ result' = [NoCall EXCEPT !.op = "schedule", !.delay = delay,
                                    !.timer = timer, !.ok = s.ok,
                                    !.level = s.level, !.slot = s.slot]
        /\ UNCHANGED <<now, returned, panicked>>

\* the tick step (counted from the start of the call) that put due[k] into the result
StepOf(marks, k) == Min({s \in 1..Len(marks) : marks[s] >= k})

\* a call tick(steps); every returned payload is logged with the step that returned it
TickCall(steps) ==
    \E t \in {tick(rings, steps)} :
        /\ rings' = t.rings
        /\ panicked' = t.panicked
        /\ now' = now + Len(t.marks)
        /\ returned' = returned \o
             [k \in 1..Len(t.due) |-> [p |-> t.due[k], at |-> now + StepOf(t.marks, k)]]
        /\ result' = [NoCall EXCEPT !.op = "tick", !.steps = steps, !.due = t.due,
                                    !.moved = t.moved, !.marks = t.marks]
        /\ UNCHANGED timers

Schedule ==
    /\ ~panicked
    /\ ~IsTest(rings)
    /\ Len(timers) < MaxTimers
    /\ \E delay \in DelayInputs(rings) : ScheduleCall(delay)

Tick ==
    /\ ~panicked
    /\ ~IsTest(rings)
    /\ \E steps \in 1..MaxSteps :
         /\ now + steps <= MaxTicks
         /\ TickCall(steps)

\* the test's wheel: its schedule calls in order before the first tick, then its ticks
TestSchedule ==
    /\ ~panicked
    /\ IsTest(rings)
    /\ now = 0
    /\ Len(timers) < Len(TestDelays)
    /\ ScheduleCall(TestDelays[Len(timers) + 1])

TestTick ==
    /\ ~panicked
    /\ IsTest(rings)
    /\ \E steps \in TestSteps :
         /\ now + steps <= TestTicks
         /\ TickCall(steps)

Next == Schedule \/ Tick \/ TestSchedule \/ TestTick

Spec == Init /\ [][Next]_vars

\* ---------------------------------------------------------------- what the claims speak of
S == slots_len(rings[0])

Levels == rings_len(rings)

\* the delay a caller's schedule call counts from: 0 stands for 1
Normalized(delay) == IF delay = 0 THEN 1 ELSE delay

Accepted == {p \in 1..Len(timers) : timers[p].ok}

Rejected == {p \in 1..Len(timers) : ~timers[p].ok}

\* the tick step, counted from construction, on which p was asked to fire
Deadline(p) == timers[p].at + Normalized(timers[p].delay)

\* the tick steps that returned p
ReturnedAt(p) == {returned[k].at : k \in {j \in 1..Len(returned) : returned[j].p = p}}

\* p was returned by the step of its deadline and by no other, and is not overdue
Exact(p) ==
    /\ ReturnedAt(p) \subseteq {Deadline(p)}
    /\ now >= Deadline(p) => ReturnedAt(p) # {}

\* C1: in any state, a payload accepted with delay d >= 1 is returned by the d-th
\* following tick step and by none of the d-1 steps before it, at whatever level
\* it was placed.
C1_ExactDelayAnyState ==
    \A p \in Accepted : Exact(p)

\* C2: on a fresh wheel, every payload scheduled before the first tick with a
\* delay d in 1..S^levels-1 is returned by the d-th tick step and by no earlier
\* one, and a tick call during which no such payload is due returns an empty list.
C2_FreshWheelExact ==
    /\ \A p \in Accepted : timers[p].at = 0 => Exact(p)
    /\ ( /\ result.op = "tick"
         /\ \A p \in Accepted :
              /\ timers[p].at = 0
              /\ Deadline(p) \notin (now - result.steps + 1)..now )
       => result.due = <<>>

\* a payload scheduled before the first tick at level 2 has been returned
C2_Witness ==
    \E k \in 1..Len(returned) :
        /\ timers[returned[k].p].at = 0
        /\ timers[returned[k].p].delay >= S * S
        /\ timers[returned[k].p].delay % S # 0

\* C3: from any wheel state schedule(0, p) and schedule(1, p) return the same
\* (level, slot) and leave the same wheel, and p fires on the next tick step,
\* never without one.
C3_ZeroDelayIsOne ==
    /\ \A p \in {Len(timers) + 1} :
         \A zero \in {schedule(rings, 0, p)} :
            /\ zero = schedule(rings, 1, p)
            /\ zero.ok
            /\ \A t \in {tick(zero.rings, 1)} :
                 Len(SelectSeq(t.due, LAMBDA x : x = p)) = 1
    /\ \A p \in Accepted :
         timers[p].delay = 0 =>
            /\ ReturnedAt(p) \subseteq {timers[p].at + 1}
            /\ now > timers[p].at => ReturnedAt(p) # {}

\* a payload scheduled with delay 0 after some ticks has been returned
C3_Witness ==
    \E k \in 1..Len(returned) :
        /\ timers[returned[k].p].delay = 0
        /\ timers[returned[k].p].at > 0

\* the entry at the back of slot `slot` of ring `level`
Back(level, slot) ==
    rings[level].slots[slot][Len(rings[level].slots[slot])]

\* C4: an accepted schedule(d, p) returns (L, slot) with L the one level such that
\* S^L <= d < S^(L+1) and slot = (cursor of ring L + d div S^L) mod S, and appends
\* (d mod S^L, p) to that slot; on the fresh 3-level wheel of 10 slots,
\* 9 -> (0,9), 10 -> (1,1), 99 -> (1,9), 100 -> (2,1), 999 -> (2,9).
C4_LevelSlotAddressing ==
    (result.op = "schedule" /\ result.ok) =>
        \A d \in {Normalized(result.delay)} :
            /\ pow(S, result.level) <= d
            /\ d < pow(S, result.level + 1)
            /\ \A l \in 0..(Levels - 1) :
                 (pow(S, l) <= d /\ d < pow(S, l + 1)) => l = result.level
            /\ result.slot =
                 (rings[result.level].cursor + (d \div pow(S, result.level))) % S
            /\ Len(rings[result.level].slots[result.slot]) > 0
            /\ Back(result.level, result.slot) =
                 <<d % pow(S, result.level), result.timer>>
            /\ (Levels = 3 /\ S = 10 /\ now = 0) =>
                 /\ d = 9 => <<result.level, result.slot>> = <<0, 9>>
                 /\ d = 10 => <<result.level, result.slot>> = <<1, 1>>
                 /\ d = 99 => <<result.level, result.slot>> = <<1, 9>>
                 /\ d = 100 => <<result.level, result.slot>> = <<2, 1>>
                 /\ d = 999 => <<result.level, result.slot>> = <<2, 9>>

\* a schedule call placed a payload above level 0 in a ring whose cursor had
\* moved, and the slot wrapped around the ring
C4_Witness ==
    /\ result.op = "schedule"
    /\ result.ok
    /\ result.level >= 1
    /\ result.slot < rings[result.level].cursor

\* C5: schedule(d, p) returns DelayTooLarge exactly when the normalized delay is
\* >= S^levels; S^levels itself is rejected and S^levels - 1 is accepted at the
\* topmost level.
C5_BoundaryRejection ==
    result.op = "schedule" =>
        \A d \in {Normalized(result.delay)} :
            /\ ~result.ok <=> d >= pow(S, Levels)
            /\ d = pow(S, Levels) => ~result.ok
            /\ d = pow(S, Levels) - 1 => (result.ok /\ result.level = Levels - 1)

\* after some ticks, S^levels - 1 was accepted and then S^levels was rejected
C5_Witness ==
    /\ result.op = "schedule"
    /\ ~result.ok
    /\ result.delay = pow(S, Levels)
    /\ now > 0
    /\ Len(timers) >= 2
    /\ timers[Len(timers) - 1].ok
    /\ timers[Len(timers) - 1].delay = pow(S, Levels) - 1
    /\ timers[Len(timers) - 1].at = now

\* the places <<level, slot, index>> of the entries the rings hold
Positions ==
    UNION {UNION {{<<l, i, k>> : k \in 1..Len(rings[l].slots[i])} :
                    i \in DOMAIN rings[l].slots} : l \in DOMAIN rings}

\* the number of entries of the rings that hold payload p
StoredCount(p) ==
    Cardinality({x \in Positions : rings[x[1]].slots[x[2]][x[3]][2] = p})

\* the number of times p was returned
ReturnedCount(p) ==
    Cardinality({k \in 1..Len(returned) : returned[k].p = p})

\* the payloads the rings hold
Stored ==
    {rings[x[1]].slots[x[2]][x[3]][2] : x \in Positions}

\* C6: a schedule call that returns DelayTooLarge changes no cursor and no slot,
\* and the rejected payload is neither stored nor returned by any later tick.
C6_RejectionHasNoEffect ==
    /\ [](\A p \in Rejected : StoredCount(p) = 0 /\ ReturnedCount(p) = 0)
    /\ [][(result'.op = "schedule" /\ ~result'.ok) =>
            (rings' = rings /\ returned' = returned /\ now' = now)]_vars

\* a payload was rejected while the rings held another, and a later tick returned one
C6_Witness ==
    \E p \in Rejected :
        /\ timers[p].at > 0
        /\ \E q \in Accepted : q < p /\ ReturnedAt(q) # {} /\
              \A t \in ReturnedAt(q) : t > timers[p].at

\* C7: tick never fails: the re-scheduling of a drained entry with a non-zero
\* residual is always accepted, so the unwrap in tick never panics.
C7_TickNeverPanics ==
    ~panicked

\* a tick call re-scheduled drained entries with a non-zero residual
C7_Witness ==
    /\ result.op = "tick"
    /\ result.moved >= 2

\* C8: every accepted payload is, at every point, either stored once in the
\* rings or returned once, never both; a rejected payload is neither; nothing
\* else is stored or returned.
C8_ExactlyOnce ==
    /\ \A p \in 1..Len(timers) :
         StoredCount(p) + ReturnedCount(p) = IF timers[p].ok THEN 1 ELSE 0
    /\ Stored \subseteq Accepted
    /\ \A k \in 1..Len(returned) : returned[k].p \in Accepted

\* one payload has been returned while another, moved down by a cascade of the
\* last tick call, is still stored
C8_Witness ==
    /\ result.op = "tick"
    /\ result.moved > 0
    /\ Stored # {}
    /\ Len(returned) > 0

\* the place of p in the log of returned payloads
ReturnedIndex(p) == CHOOSE k \in 1..Len(returned) : returned[k].p = p

\* C9: two payloads accepted with the same delay with no tick between the two
\* schedule calls are returned by the same tick step, the first scheduled
\* before the other.
C9_SameSlotBatching ==
    \A p \in Accepted : \A q \in Accepted :
        ( /\ p < q
          /\ timers[p].at = timers[q].at
          /\ Normalized(timers[p].delay) = Normalized(timers[q].delay) )
        => /\ ReturnedAt(p) = ReturnedAt(q)
           /\ ReturnedAt(p) # {} => ReturnedIndex(p) < ReturnedIndex(q)

\* two payloads placed above level 0 with a non-zero residual, after some
\* ticks, have both been returned
C9_Witness ==
    \E p \in Accepted : \E q \in Accepted :
        /\ p < q
        /\ timers[p].at = timers[q].at
        /\ timers[p].at > 0
        /\ timers[p].delay = timers[q].delay
        /\ timers[p].delay > S
        /\ timers[p].delay % S # 0
        /\ ReturnedAt(p) # {}
        /\ ReturnedAt(q) # {}

\* the wheel and the results so far, followed by one more call of tick
After(rs, due, t) == [rings |-> t.rings, due |-> due \o t.due]

\* n successive calls tick(1): the wheel after them and their results concatenated
RECURSIVE TickOneByOne(_, _)
TickOneByOne(w, n) ==
    IF n = 0 THEN w
    ELSE TickOneByOne(After(w.rings, w.due, tick(w.rings, 1)), n - 1)

\* the numbers of steps tried from a state
StepInputs == IF IsTest(rings) THEN TestSteps ELSE 1..MaxSteps

\* C10: from any wheel state, tick(n) returns the same payloads in the same
\* order as n successive tick(1) calls, and leaves the same wheel.
C10_MultiStepTick ==
    \A n \in StepInputs :
        \A many \in {tick(rings, n)} : \A ones \in {TickOneByOne([rings |-> rings, due |-> <<>>], n)} :
            /\ many.rings = ones.rings
            /\ many.due = ones.due

\* a tick call of several steps returned payloads from its first step and from
\* a later one, and moved an entry down
C10_Witness ==
    /\ result.op = "tick"
    /\ result.steps >= 2
    /\ result.marks[1] > 0
    /\ Len(result.due) > result.marks[1]
    /\ result.moved > 0

\* C11: in a tick step ring 0 is advanced once, and a ring k >= 1 is advanced
\* (once) exactly when ring k-1 was advanced in that step and its cursor is 0
\* after its advance; a ring whose lower ring has cursor 0 without having been
\* advanced stays where it is.  A ring was advanced when its cursor changed.
C11_CascadeTrigger ==
    [][(result'.op = "tick" /\ now' = now + 1) =>
         /\ rings'[0].cursor = (rings[0].cursor + 1) % S
         /\ \A k \in 1..(Levels - 1) :
              rings'[k].cursor =
                 IF rings'[k - 1].cursor # rings[k - 1].cursor /\ rings'[k - 1].cursor = 0
                 THEN (rings[k].cursor + 1) % S
                 ELSE rings[k].cursor]_vars

\* after a tick step ring 1 has cursor 0 and was not advanced (ring 0 did not
\* wrap), and ring 2, advanced by an earlier step, stayed where it was
C11_Witness ==
    /\ result.op = "tick"
    /\ result.steps = 1
    /\ Levels = 3
    /\ rings[0].cursor # 0
    /\ rings[1].cursor = 0
    /\ rings[2].cursor # 0

\* C12: all cursors start at 0 and after T tick steps in all, schedule calls
\* interleaved in any way, the cursor of ring k is (T div S^k) mod S.
C12_Odometer ==
    \A k \in 0..(Levels - 1) :
        /\ rings[k].cursor = (now \div pow(S, k)) % S
        /\ rings[k].cursor \in 0..(S - 1)

\* with schedule calls made, the two upper rings of a 3-level wheel have moved
C12_Witness ==
    /\ Levels = 3
    /\ Len(timers) > 0
    /\ rings[1].cursor # 0
    /\ rings[2].cursor # 0

\* the places <<level, slot, index>> of the entries of a wheel
PositionsIn(rs) ==
    UNION {UNION {{<<l, i, k>> : k \in 1..Len(rs[l].slots[i])} :
                    i \in DOMAIN rs[l].slots} : l \in DOMAIN rs}

\* the entry <<residual, payload>> at a place
EntryAt(rs, x) == rs[x[1]].slots[x[2]][x[3]]

\* the slots between the cursor of ring x[1] and the slot of place x, times the
\* span of the ring, plus the residual of the entry
SlotDistance(rs, x) ==
    ((x[2] + S - rs[x[1]].cursor) % S) * pow(S, x[1]) + EntryAt(rs, x)[1]

\* C13: in every reachable state, for every entry (r, p) in slot i of ring L, the
\* tick steps left until the requested deadline of p equal
\* ((i - cursor_L) mod S) * S^L + r.
C13_DeadlineInvariant ==
    \A x \in Positions :
        Deadline(EntryAt(rings, x)[2]) - now = SlotDistance(rings, x)

\* the tick step, counted from construction, that the place of an entry stands
\* for after t tick steps: the slot distance less the part of the ring's span
\* that the rings below have already run through
FireStep(rs, t, x) ==
    t + SlotDistance(rs, x) - (t % pow(S, x[1]))

\* C13 as amended: for every entry (r, p) in slot i of ring L, p is returned by
\* the tick step ((i - cursor_L) mod S) * S^L + r - (T mod S^L) steps from now,
\* T the tick steps so far: that step stays the same for as long as p is stored,
\* through every cascade, and it is the step that returns p.
C13_ReturnStepInvariant ==
    [][\A x \in PositionsIn(rings) :
         \A p \in {EntryAt(rings, x)[2]} :
            \/ \E y \in PositionsIn(rings') :
                  /\ EntryAt(rings', y)[2] = p
                  /\ FireStep(rings', now', y) = FireStep(rings, now, x)
            \/ \E k \in (Len(returned) + 1)..Len(returned') :
                  /\ returned'[k].p = p
                  /\ returned'[k].at = FireStep(rings, now, x)]_vars

\* a payload first placed above level 0 has been returned, and an entry above
\* level 0 is stored while the rings below it are part of the way round
C13_Witness ==
    /\ \E k \in 1..Len(returned) : timers[returned[k].p].delay > S
    /\ \E x \in Positions : x[1] >= 1 /\ now % pow(S, x[1]) # 0

\* C14: in every reachable state, the residual r of every entry stored at level
\* L satisfies 0 <= r < S^L, so every entry at level 0 has residual 0.
C14_ResidualBound ==
    \A x \in Positions :
        /\ EntryAt(rings, x)[1] >= 0
        /\ EntryAt(rings, x)[1] < pow(S, x[1])

\* an entry with a residual above zero is stored above level 0, and an entry is
\* stored at level 0
C14_Witness ==
    /\ \E x \in Positions : x[1] >= 1 /\ EntryAt(rings, x)[1] > 0
    /\ \E x \in Positions : x[1] = 0

\* the place of the entry of payload p in a wheel that stores it
PlaceOf(rs, p) == CHOOSE x \in PositionsIn(rs) : EntryAt(rs, x)[2] = p

\* C15: an entry drained from ring k >= 1 with a residual above zero is placed
\* again in a ring of a level below k, never in ring k or above: across every
\* call a stored payload either keeps its ring and slot or is then in a ring of a
\* lower level, so the levels it is in only fall and it is in at most `levels`
\* slot queues over its life.
C15_CascadeDownward ==
    [][\A x \in PositionsIn(rings) :
         \A p \in {EntryAt(rings, x)[2]} :
            (\E y \in PositionsIn(rings') : EntryAt(rings', y)[2] = p) =>
               \E y \in {PlaceOf(rings', p)} :
                  \/ y[1] = x[1] /\ y[2] = x[2]
                  \/ y[1] < x[1]]_vars

\* a tick call has moved entries down, and a payload first placed at level 2 is
\* stored at level 0
C15_Witness ==
    /\ result.op = "tick"
    /\ result.moved > 0
    /\ \E x \in Positions :
          /\ x[1] = 0
          /\ Normalized(timers[EntryAt(rings, x)[2]].delay) >= pow(S, 2)

\* the slot that the next tick of ring k drains
NextSlot(rs, k) == rs[k].slots[(rs[k].cursor + 1) % S]

\* ring k is advanced by the next tick step: every ring below it wraps
Advances(rs, k) == \A j \in 0..(k - 1) : rs[j].cursor = S - 1

\* the entries of residual 0 in a queue, in the order of the queue
ZeroResidual(entries) ==
    LET IsZero(e) == e[1] = 0
    IN  SelectSeq(entries, IsZero)

\* the payloads of residual 0 that the next tick step drains from the rings k and
\* above, ring by ring
RECURSIVE DrainedAbove(_, _)
DrainedAbove(rs, k) ==
    IF k >= Levels THEN <<>>
    ELSE (IF Advances(rs, k) THEN payloads(ZeroResidual(NextSlot(rs, k))) ELSE <<>>)
            \o DrainedAbove(rs, k + 1)

\* C16: the output of one tick step is the payloads drained from ring 0 in the
\* order of their slot, followed by the payloads drained with residual 0 from the
\* rings k >= 1, in increasing order of the level they were drained from and in
\* the order of their slot within a level.
C16_StepOutputOrder ==
    [][(result'.op = "tick" /\ now' = now + 1) =>
          result'.due = payloads(NextSlot(rings, 0)) \o DrainedAbove(rings, 1)]_vars

\* one tick step has returned a payload drained from ring 0 before a payload
\* drained from ring 1 that was scheduled earlier
C16_Witness ==
    /\ result.op = "tick"
    /\ result.steps = 1
    /\ Len(result.due) = 2
    /\ result.due[1] > result.due[2]
    /\ Normalized(timers[result.due[1]].delay) < S
    /\ timers[result.due[2]].delay = S

\* C17: an accepted schedule(d, p) changes no cursor, and changes the slots only
\* by appending one entry, that of p, at the back of the slot it returns in the
\* ring of the level it returns; every other slot, and the entries that slot
\* had, keep their contents and order.
C17_ScheduleFrame ==
    [][(result'.op = "schedule" /\ result'.ok) =>
          /\ \A k \in 0..(Levels - 1) : rings'[k].cursor = rings[k].cursor
          /\ Len(rings'[result'.level].slots[result'.slot]) =
                Len(rings[result'.level].slots[result'.slot]) + 1
          /\ \E e \in {rings'[result'.level].slots[result'.slot]
                          [Len(rings'[result'.level].slots[result'.slot])]} :
                /\ e[2] = result'.timer
                /\ rings' = [rings EXCEPT
                               ![result'.level].slots[result'.slot] = Append(@, e)]]_vars

\* an accepted schedule call made after tick steps has put its entry behind
\* another entry of a slot above level 0
C17_Witness ==
    /\ result.op = "schedule"
    /\ result.ok
    /\ result.level >= 1
    /\ Len(rings[result.level].slots[result.slot]) >= 2
    /\ Back(result.level, result.slot)[2] = result.timer
    /\ now > 0

\* C18: in any reachable state, a payload accepted with normalized delay d is
\* returned by one of the next d tick steps: never by a step after the d-th
\* one that follows the call, and never without a tick step after the call.
C18_BoundedResponse ==
    \A p \in Accepted :
        /\ ReturnedAt(p) \subseteq (timers[p].at + 1)..Deadline(p)
        /\ now >= Deadline(p) => ReturnedAt(p) # {}

\* a payload accepted after tick steps has been returned before the step of its
\* deadline, and another by the step of its deadline
C18_Witness ==
    /\ \E p \in Accepted :
          /\ timers[p].at > 0
          /\ \E t \in ReturnedAt(p) : t < Deadline(p)
    /\ \E p \in Accepted : Deadline(p) \in ReturnedAt(p)

\* C19: after every completed schedule or tick call, in every ring the slot at
\* the ring's cursor holds no entry.
C19_CurrentSlotEmpty ==
    \A k \in 0..(Levels - 1) : rings[k].slots[rings[k].cursor] = <<>>

\* an accepted schedule call has put its entry S - 1 slots ahead of the cursor of
\* a ring above level 0 that has advanced, the slot just behind the cursor
C19_Witness ==
    /\ result.op = "schedule"
    /\ result.ok
    /\ result.level >= 1
    /\ rings[result.level].cursor # 0
    /\ result.slot = (rings[result.level].cursor + S - 1) % S
    /\ rings[result.level].slots[result.slot] # <<>>

====
